---------------------------- MODULE Spec2Model ----------------------------
(***************************************************************************)
(* A model of the terminal chat client: the artifact extractor             *)
(* (src/src/artifacts.rs), the tool dispatcher (src/src/mcp.rs) and the    *)
(* event loop with its turn cycle (src/src/ui.rs).                         *)
(*                                                                         *)
(* Strings are sequences of tokens.  A token is a TLA+ string standing for *)
(* a run of characters that the code never looks inside ("artifact",       *)
(* "identifier", "a"), or for a single character the code searches for     *)
(* ("<", "/", ">", "=", the double quote, the line feed).  Substring       *)
(* search, splitting and joining are computed on these sequences.          *)
(***************************************************************************)
EXTENDS Integers, Sequences, FiniteSets, TLC

VARIABLES
    \* ---- ChatApp (src/src/ui.rs:22-31) ----
    messages,        \* Vec<Message>
    input,           \* String
    artifacts,       \* Vec<Artifact>
    scroll_offset,   \* usize
    \* ---- position of the loop and of send_message ----
    pc,              \* "Idle" | "AwaitingModel" | "ProcessingResponse", and after
                     \* run returned: "Exited" (Ok) | "Failed" (Err)
    key,             \* the last event the loop read: "none" before the first
    request,         \* the MessageRequest in flight: <<>> or <<req>>
    response,        \* response.content of the response being processed
    resp_i,          \* number of items of response.content already consumed
    response_blocks, \* send_message's local Vec<ContentBlock>
    full_text,       \* send_message's local String
    displayed,       \* the call of display_artifact made for the last event: the
                     \* artifact handed over and the outcome, if there was a call
    fail_streak,     \* history variable: the turns in a row that failed in the
                     \* transport, and messages and artifacts as they were before
    uuid_calls,      \* number of values Uuid::new_v4() has returned so far
    \* ---- one call of extract_artifacts run line by line ----
    ex_text,         \* the text argument
    ex_lines,        \* text.lines()
    ex_pos,          \* number of lines consumed by the for loop
    ex,              \* the locals in_artifact, current_artifact, content_lines, artifacts
    ex_runs,         \* the values returned by the calls completed on ex_text
    \* ---- one call of the calculator tool ----
    calc_expr,       \* the "expression" field of the input
    calc_out         \* the value returned: <<>> before the call, <<result>> after

ui_state == <<messages, input, artifacts, scroll_offset, pc, key, request, response,
              resp_i, response_blocks, full_text, displayed, fail_streak>>
ui_vars == <<ui_state, uuid_calls>>
ex_vars == <<ex_text, ex_lines, ex_pos, ex, ex_runs>>
calc_vars == <<calc_expr, calc_out>>
vars == <<ui_vars, ex_vars, calc_vars>>

---------------------------------------------------------------------------
(* Bounds of the exploration.                                              *)

\* lines of a text given to the extractor
MaxLines == 5
\* turns started by Enter
MaxTurns == 3
\* characters of user text held in the input buffer and in the history
MaxChars == 3
\* the scroll offset reached by Down
MaxScroll == 1
\* tokens of an expression given to the calculator
MaxExpr == 5
\* the decimal exponents of the literals whose value is computed
MaxExp10 == 3

---------------------------------------------------------------------------
(* Strings.                                                                *)

NL == "\n"
QUOTE == "\""

Last(s) == s[Len(s)]

IsPrefix(s, t) == Len(s) <= Len(t) /\ SubSeq(t, 1, Len(s)) = s

\* str::find: the 1-based index of the first occurrence of pat in s, 0 for None
Find(s, pat) ==
    LET hits == {i \in 1..(Len(s) - Len(pat) + 1) : SubSeq(s, i, i + Len(pat) - 1) = pat}
    IN  IF hits = {} THEN 0 ELSE CHOOSE i \in hits : \A j \in hits : i <= j

\* str::contains
Contains(s, pat) == Find(s, pat) # 0

\* str::lines: split at line feeds; a final line feed ends the last line
\* and opens no empty one
RECURSIVE Lines(_)
Lines(text) ==
    IF text = <<>> THEN <<>>
    ELSE LET i == Find(text, <<NL>>)
         IN  IF i = 0 THEN <<text>>
             ELSE <<SubSeq(text, 1, i - 1)>> \o Lines(SubSeq(text, i + 1, Len(text)))

\* [&str]::join
RECURSIVE Join(_, _)
Join(ls, sep) ==
    IF ls = <<>> THEN <<>>
    ELSE IF Len(ls) = 1 THEN ls[1]
    ELSE ls[1] \o sep \o Join(Tail(ls), sep)

\* Option<T>: None is <<>>, Some(v) is <<v>>
None == <<>>
Some(v) == <<v>>
unwrap_or(opt, default) == IF opt = None THEN default ELSE opt[1]

---------------------------------------------------------------------------
(* The artifact extractor.                                                 *)

OPEN_MARKER == <<"<", "artifact">>
CLOSE_MARKER == <<"<", "/", "artifact", ">">>

extract_attribute(line, attr_name) ==
    LET pattern == <<attr_name, "=", QUOTE>>
        found == Find(line, pattern)
    IN  IF found = 0 THEN None
        ELSE LET start == found + Len(pattern)
                 rest == SubSeq(line, start, Len(line))
                 end == Find(rest, <<QUOTE>>)
             IN  IF end = 0 THEN None ELSE Some(SubSeq(rest, 1, end - 1))

\* the locals of extract_artifacts before the loop
ExtractInit ==
    [in_artifact |-> FALSE, current_artifact |-> None,
     content_lines |-> <<>>, artifacts |-> <<>>]

\* OpenLine without content_lines.clear(): the lines gathered so far stay
OpenLineKeepsLines(st, line, uuid) ==
    [in_artifact |-> TRUE,
     current_artifact |-> Some([
         id |-> unwrap_or(extract_attribute(line, "identifier"), uuid),
         title |-> unwrap_or(extract_attribute(line, "title"), <<"Untitled">>),
         content_type |-> unwrap_or(extract_attribute(line, "type"), <<"text/plain">>),
         content |-> <<>>]),
     content_lines |-> st.content_lines,
     artifacts |-> st.artifacts]

\* OpenLine that generates the identifier even when the line carries one
OpenLineAlwaysUuid(st, line, uuid) ==
    [in_artifact |-> TRUE,
     current_artifact |-> Some([
         id |-> uuid,
         title |-> unwrap_or(extract_attribute(line, "title"), <<"Untitled">>),
         content_type |-> unwrap_or(extract_attribute(line, "type"), <<"text/plain">>),
         content |-> <<>>]),
     content_lines |-> <<>>,
     artifacts |-> st.artifacts]

\* the branch of the loop body taken for a line with the opening marker;
\* uuid is the value Uuid::new_v4() returns if it is called
OpenLine(st, line, uuid) ==
    LET id == unwrap_or(extract_attribute(line, "identifier"), uuid)
        title == unwrap_or(extract_attribute(line, "title"), <<"Untitled">>)
        content_type == unwrap_or(extract_attribute(line, "type"), <<"text/plain">>)
    IN  [in_artifact |-> TRUE,
         current_artifact |-> Some([id |-> id, title |-> title,
                                    content_type |-> content_type, content |-> <<>>]),
         content_lines |-> <<>>,
         artifacts |-> st.artifacts]

\* CloseLine joining the body lines without a separator
CloseLineJoinsBare(st) ==
    [in_artifact |-> FALSE,
     current_artifact |-> None,
     content_lines |-> <<>>,
     artifacts |-> IF st.current_artifact # None
                   THEN Append(st.artifacts,
                               [st.current_artifact[1] EXCEPT
                                   !.content = Join(st.content_lines, <<>>)])
                   ELSE st.artifacts]

\* CloseLine inserting the artifact at the front of the result
CloseLinePrepends(st) ==
    [in_artifact |-> FALSE,
     current_artifact |-> None,
     content_lines |-> <<>>,
     artifacts |-> IF st.current_artifact # None
                   THEN <<[st.current_artifact[1] EXCEPT
                              !.content = Join(st.content_lines, <<NL>>)]>>
                        \o st.artifacts
                   ELSE st.artifacts]

\* the branch taken for a line with the closing marker (and no opening one)
CloseLine(st) ==
    [in_artifact |-> FALSE,
     current_artifact |-> None,
     content_lines |-> <<>>,
     artifacts |-> IF st.current_artifact # None
                   THEN Append(st.artifacts,
                               [st.current_artifact[1] EXCEPT
                                   !.content = Join(st.content_lines, <<NL>>)])
                   ELSE st.artifacts]

\* the branch taken for any other line
BodyLine(st, line) ==
    IF st.in_artifact
    THEN [st EXCEPT !.content_lines = Append(st.content_lines, line)]
    ELSE st

\* an iteration that looks for the closing marker first
ExtractLineCloseFirst(st, line, uuid) ==
    IF Contains(line, CLOSE_MARKER) THEN CloseLine(st)
    ELSE IF Contains(line, OPEN_MARKER) THEN OpenLine(st, line, uuid)
    ELSE BodyLine(st, line)

\* one iteration of the loop of extract_artifacts
ExtractLine(st, line, uuid) ==
    IF Contains(line, OPEN_MARKER) THEN OpenLine(st, line, uuid)
    ELSE IF Contains(line, CLOSE_MARKER) THEN CloseLine(st)
    ELSE BodyLine(st, line)

\* the n-th value Uuid::new_v4().to_string() returns in the process: a token
\* that no text holds and that differs from every other one returned
Uuid(n) == <<"uuid-", ToString(n)>>

IsUuid(s) == Len(s) = 2 /\ s[1] = "uuid-"

\* the lines for which the loop calls Uuid::new_v4(): unwrap_or_else calls
\* it only when the line has no identifier attribute
CallsUuid(line) ==
    Contains(line, OPEN_MARKER) /\ extract_attribute(line, "identifier") = None

\* the number of calls of Uuid::new_v4() made for the first n lines
UuidCalls(ls, n) == Cardinality({m \in 1..n : CallsUuid(ls[m])})

\* what Uuid::new_v4() returns for each line of a call entered after
\* calls values have been returned
UuidsFor(ls, calls) == [i \in 1..Len(ls) |-> Uuid(calls + UuidCalls(ls, i))]

\* the loop over the first n lines; uuids[i] is what Uuid::new_v4() returns
\* when it is called for line i
RECURSIVE ExtractLoop(_, _, _)
ExtractLoop(ls, uuids, n) ==
    IF n = 0 THEN ExtractInit
    ELSE ExtractLine(ExtractLoop(ls, uuids, n - 1), ls[n], uuids[n])

\* a return that flushes the artifact still in progress at the end of the text
ExtractResultFlushes(st) ==
    IF st.current_artifact # None
    THEN Append(st.artifacts,
                [st.current_artifact[1] EXCEPT !.content = Join(st.content_lines, <<NL>>)])
    ELSE st.artifacts

\* what extract_artifacts returns once the loop is over
ExtractResult(st) == st.artifacts

extract_artifacts(text, uuids) ==
    ExtractResult(ExtractLoop(Lines(text), uuids, Len(Lines(text))))

---------------------------------------------------------------------------
(* Texts given to the extractor: every sequence of at most MaxLines lines  *)
(* drawn from LineShapes, joined by line feeds.                            *)

PlainLine == <<"a">>
EmptyLine == <<>>
BareOpenLine == <<"<", "artifact", ">">>
AttrOpenLine ==
    <<"<", "artifact", " ", "identifier", "=", QUOTE, "p", QUOTE,
      " ", "type", "=", QUOTE, "text/html", QUOTE, ">">>
CloseLineText == <<"a", "<", "/", "artifact", ">">>
OpenCloseLine == <<"<", "artifact", ">", "a", "<", "/", "artifact", ">">>

LineShapes ==
    {PlainLine, EmptyLine, BareOpenLine, AttrOpenLine, CloseLineText, OpenCloseLine}

Texts == {Join(ls, <<NL>>) : ls \in UNION {[1..n -> LineShapes] : n \in 0..MaxLines}}

\* extract_artifacts is entered: text.lines() is taken, the locals are set
ExInit ==
    /\ ex_text \in Texts
    /\ ex_lines = Lines(ex_text)
    /\ ex_pos = 0
    /\ ex = ExtractInit
    /\ ex_runs = <<>>

\* the for loop takes the next line
ExStep ==
    /\ Len(ex_runs) < 2
    /\ ex_pos < Len(ex_lines)
    /\ LET line == ex_lines[ex_pos + 1]
       IN  /\ ex' = ExtractLine(ex, line, Uuid(uuid_calls + 1))
           /\ uuid_calls' = IF CallsUuid(line) THEN uuid_calls + 1 ELSE uuid_calls
    /\ ex_pos' = ex_pos + 1
    /\ UNCHANGED <<ex_text, ex_lines, ex_runs>>
    /\ UNCHANGED <<ui_state, calc_vars>>

\* the loop is over: the call returns its artifacts, and the same text is
\* given to a second call
ExReturn ==
    /\ Len(ex_runs) < 2
    /\ ex_pos = Len(ex_lines)
    /\ ex_runs' = Append(ex_runs, ExtractResult(ex))
    /\ ex_pos' = 0
    /\ ex' = ExtractInit
    /\ UNCHANGED <<ex_text, ex_lines, uuid_calls>>
    /\ UNCHANGED <<ui_state, calc_vars>>

NoStreak == [n |-> 0, messages |-> <<>>, artifacts |-> <<>>]

\* ChatApp::new
UiIdle ==
    /\ messages = <<>>
    /\ input = <<>>
    /\ artifacts = <<>>
    /\ scroll_offset = 0
    /\ pc = "Idle"
    /\ key = "none"
    /\ request = None
    /\ response = <<>>
    /\ resp_i = 0
    /\ response_blocks = <<>>
    /\ full_text = <<>>
    /\ displayed = None
    /\ fail_streak = NoStreak
    /\ uuid_calls = 0

\* no call of extract_artifacts is followed line by line
ExtractIdle ==
    /\ ex_text = <<>>
    /\ ex_lines = <<>>
    /\ ex_pos = 0
    /\ ex = ExtractInit
    /\ ex_runs = <<>>

\* no call of the calculator is followed
CalcIdle ==
    /\ calc_expr = <<>>
    /\ calc_out = None

InitExtract == UiIdle /\ ExInit /\ CalcIdle

NextExtract == ExStep \/ ExReturn

SpecExtract == InitExtract /\ [][NextExtract]_vars

---------------------------------------------------------------------------
(* The tool dispatcher (src/src/mcp.rs).  An expression is a sequence of   *)
(* one-character tokens.  An f64 is modelled by the exact rational         *)
(* [n, d] in lowest terms, or by "inf", "-inf" or "NaN"; rounding and      *)
(* overflow of f64 are outside the model.                                  *)

\* Result<T>: Ok(v) and Err(e)
Ok(v) == [ok |-> TRUE, val |-> v]
Err(e) == [ok |-> FALSE, err |-> e]

Digits == {"0", "1", "2", "3", "4", "5", "6", "7", "8", "9"}

DigitValue(c) ==
    CASE c = "0" -> 0 [] c = "1" -> 1 [] c = "2" -> 2 [] c = "3" -> 3
      [] c = "4" -> 4 [] c = "5" -> 5 [] c = "6" -> 6 [] c = "7" -> 7
      [] c = "8" -> 8 [] c = "9" -> 9

IsDigits(s) == s # <<>> /\ \A i \in 1..Len(s) : s[i] \in Digits

RECURSIVE NatValue(_)
NatValue(s) ==
    IF s = <<>> THEN 0
    ELSE 10 * NatValue(SubSeq(s, 1, Len(s) - 1)) + DigitValue(s[Len(s)])

RECURSIVE Pow10(_)
Pow10(k) == IF k = 0 THEN 1 ELSE 10 * Pow10(k - 1)

Abs(x) == IF x < 0 THEN -x ELSE x

RECURSIVE Gcd(_, _)
Gcd(x, y) == IF y = 0 THEN x ELSE Gcd(y, x % y)

\* the f64 n/d, d > 0; neg is the sign bit, which tells the two zeros apart
Num(n, d) ==
    LET g == Gcd(Abs(n), d)
    IN  [kind |-> "num", n |-> n \div g, d |-> d \div g, neg |-> n < 0]
NegZero == [kind |-> "num", n |-> 0, d |-> 1, neg |-> TRUE]
Zero(negative) == IF negative THEN NegZero ELSE Num(0, 1)
Inf(negative) == [kind |-> IF negative THEN "-inf" ELSE "inf"]
NaN == [kind |-> "NaN"]
\* a value whose exponent is beyond MaxExp10: the model does not compute it
OutOfRange == [kind |-> "out of range"]

\* an optional sign taken off the front of a literal
Unsigned(s) == IF s # <<>> /\ s[1] \in {"+", "-"} THEN Tail(s) ELSE s
IsNegative(s) == s # <<>> /\ s[1] = "-"

\* the value mantissa * 10^exponent, with the sign given
LiteralValue(negative, mantissa, exponent) ==
    IF mantissa = 0 THEN Zero(negative)
    ELSE IF Abs(exponent) > MaxExp10 THEN OutOfRange
    ELSE IF exponent < 0
    THEN Num((IF negative THEN -1 ELSE 1) * mantissa, Pow10(-exponent))
    ELSE Num((IF negative THEN -1 ELSE 1) * mantissa * Pow10(exponent), 1)

\* the value of a literal with the given mantissa and exponent
ParseLiteral(s, mantissa, exponent) ==
    IF s = <<>> THEN Err(<<"cannot parse float from empty string">>)
    ELSE IF IsDigits(mantissa) /\ IsDigits(Unsigned(exponent))
    THEN Ok(LiteralValue(IsNegative(s), NatValue(mantissa),
                         (IF IsNegative(exponent) THEN -1 ELSE 1)
                             * NatValue(Unsigned(exponent))))
    ELSE Err(<<"invalid float literal">>)

\* the literal without its sign is cut at the "e" found at e, if any
ParseUnsigned(s, body, e) ==
    ParseLiteral(s, IF e = 0 THEN body ELSE SubSeq(body, 1, e - 1),
                    IF e = 0 THEN <<"0">> ELSE SubSeq(body, e + 1, Len(body)))

\* str::parse::<f64> on the literals the tokens can spell: an optional
\* sign, digits, and an optional exponent "e", optional sign, digits
ParseF64(s) == ParseUnsigned(s, Unsigned(s), Find(Unsigned(s), <<"e">>))

\* f64 arithmetic on the values above; a zero result has the sign IEEE 754
\* gives it
Computed(a, b) == a.kind = "num" /\ b.kind = "num"

F64Add(a, b) ==
    IF ~Computed(a, b) THEN OutOfRange
    ELSE IF a.n * b.d + b.n * a.d = 0 THEN Zero(a.n = 0 /\ a.neg /\ b.neg)
    ELSE Num(a.n * b.d + b.n * a.d, a.d * b.d)
F64Sub(a, b) ==
    IF ~Computed(a, b) THEN OutOfRange
    ELSE IF a.n * b.d - b.n * a.d = 0 THEN Zero(a.n = 0 /\ a.neg /\ ~b.neg)
    ELSE Num(a.n * b.d - b.n * a.d, a.d * b.d)
F64Mul(a, b) ==
    IF ~Computed(a, b) THEN OutOfRange
    ELSE IF a.n * b.n = 0 THEN Zero(a.neg # b.neg)
    ELSE Num(a.n * b.n, a.d * b.d)
F64Div(a, b) ==
    IF ~Computed(a, b) THEN OutOfRange
    ELSE IF b.n = 0
    THEN IF a.n = 0 THEN NaN ELSE Inf(a.neg # b.neg)
    ELSE IF a.n = 0 THEN Zero(a.neg # b.neg)
    ELSE Num((IF b.n < 0 THEN -1 ELSE 1) * a.n * b.d, a.d * Abs(b.n))

F64Apply(op, a, b) ==
    CASE op = "+" -> F64Add(a, b)
      [] op = "-" -> F64Sub(a, b)
      [] op = "*" -> F64Mul(a, b)
      [] op = "/" -> F64Div(a, b)

\* Display of an f64: an integer prints without a fraction, the negative
\* zero as "-0"; a fraction is kept as numerator, "/", denominator
F64Display(v) ==
    IF v.kind # "num" THEN <<v.kind>>
    ELSE IF v = NegZero THEN <<"-0">>
    ELSE IF v.d = 1 THEN <<ToString(v.n)>>
    ELSE <<ToString(v.n), "/", ToString(v.d)>>

\* str::replace(" ", "")
RemoveSpaces(s) == SelectSeq(s, LAMBDA c : c # " ")

\* str::split(ch).collect()
RECURSIVE Split(_, _)
SplitAt(s, ch, i) ==
    IF i = 0 THEN <<s>>
    ELSE <<SubSeq(s, 1, i - 1)>> \o Split(SubSeq(s, i + 1, Len(s)), ch)
Split(s, ch) == SplitAt(s, ch, Find(s, <<ch>>))

\* both parts are parsed with "?", then the operator is applied
OperatorResult(op, a, b) ==
    IF ~a.ok THEN a
    ELSE IF ~b.ok THEN b
    ELSE Ok(F64Apply(op, a.val, b.val))

\* "if parts.len() >= 2": the parts after the second are dropped
OperatorPartsAtLeastTwo(op, parts) ==
    IF Len(parts) >= 2
    THEN Some(OperatorResult(op, ParseF64(parts[1]), ParseF64(parts[2])))
    ELSE None

\* "if parts.len() == 2" inside the block of op
OperatorParts(op, parts) ==
    IF Len(parts) = 2
    THEN Some(OperatorResult(op, ParseF64(parts[1]), ParseF64(parts[2])))
    ELSE None

\* one "if cleaned.contains(op)" block of evaluate_expression: Some(result)
\* when the block returns, None when control falls through to the next
TryOperator(cleaned, op) ==
    IF Contains(cleaned, <<op>>) THEN OperatorParts(op, Split(cleaned, op)) ELSE None

\* the result of a block that returned, or else what follows the block
OrElse(returned, otherwise) == IF returned # None THEN returned[1] ELSE otherwise

\* cleaned.parse::<f64>() with its error mapped
ParseWhole(single) ==
    IF single.ok THEN single ELSE Err(<<"Parse error: ">> \o single.err)

EvaluateCleaned(cleaned) ==
    OrElse(TryOperator(cleaned, "+"),
    OrElse(TryOperator(cleaned, "-"),
    OrElse(TryOperator(cleaned, "*"),
    OrElse(TryOperator(cleaned, "/"),
           ParseWhole(ParseF64(cleaned))))))

evaluate_expression(expr) == EvaluateCleaned(RemoveSpaces(expr))

\* a serde_json::Value: an object is a function from its keys to values, a
\* string value is [str |-> s], any other value has no str field
JsonString(s) == [str |-> s]
JsonNumber == [number |-> TRUE]
JsonObject(f) == [fields |-> f]
JsonEmptyObject == [fields |-> <<>>]

\* input[field].as_str(), for the input of a tool call
JsonGetStr(tool_input, field) ==
    IF field \in DOMAIN tool_input.fields /\ "str" \in DOMAIN tool_input.fields[field]
    THEN Some(tool_input.fields[field].str)
    ELSE None

\* the text calculator returns for the result of the evaluation
CalculatorReply(result) ==
    IF result.ok THEN Ok(<<"Result: ">> \o F64Display(result.val))
    ELSE Ok(<<"Error: ">> \o result.err)

calculator(tool_input) ==
    IF JsonGetStr(tool_input, "expression") = None THEN Err(<<"Missing expression">>)
    ELSE CalculatorReply(evaluate_expression(JsonGetStr(tool_input, "expression")[1]))

weather(tool_input) ==
    IF JsonGetStr(tool_input, "location") = None THEN Err(<<"Missing location">>)
    ELSE Ok(<<"Weather for ">> \o JsonGetStr(tool_input, "location")[1] \o <<":", NL,
              "  temperature: 22C", NL, "  condition: Partly cloudy", NL,
              "  humidity: 65%", NL, "  wind: 10 km/h NE", NL>>)

handle_tool_call(name, tool_input) ==
    CASE name = "calculator" -> calculator(tool_input)
      [] name = "weather" -> weather(tool_input)
      [] OTHER -> Err(<<"Unknown tool: ", name>>)

---------------------------------------------------------------------------
(* One call of the calculator tool on every expression of up to MaxExpr    *)
(* tokens.                                                                 *)

ExprTokens == {"0", "1", "+", "-", "*", "/", "e", "(", " "}

Exprs == UNION {[1..n -> ExprTokens] : n \in 0..MaxExpr}

CalcInit ==
    /\ calc_expr \in Exprs
    /\ calc_out = None

\* handle_tool_call("calculator", {"expression": calc_expr}) returns
CalcCall ==
    /\ calc_out = None
    /\ calc_out' = Some(handle_tool_call("calculator",
                            JsonObject([expression |-> JsonString(calc_expr)])))
    /\ UNCHANGED calc_expr
    /\ UNCHANGED <<ui_vars, ex_vars>>

InitCalc == UiIdle /\ ExtractIdle /\ CalcInit

NextCalc == CalcCall

SpecCalc == InitCalc /\ [][NextCalc]_vars

---------------------------------------------------------------------------
(* Messages and content blocks (src/src/api.rs).                           *)

\* MessageContent::Text and MessageContent::Blocks
MessageText(text) == [kind |-> "Text", text |-> text]
MessageBlocks(blocks) == [kind |-> "Blocks", blocks |-> blocks]

Message(role, content) == [role |-> role, content |-> content]

\* ContentBlock and ResponseContent, tagged by "type"
TextBlock(text) == [type |-> "text", text |-> text]
ToolUseBlock(id, name, tool_input) ==
    [type |-> "tool_use", id |-> id, name |-> name, input |-> tool_input]
ToolResultBlock(tool_use_id, content) ==
    [type |-> "tool_result", tool_use_id |-> tool_use_id, content |-> content]

\* ClaudeClient::get_tools, by name
get_tools == <<"calculator", "weather">>

\* the request built from the history as it was before the push of the
\* user message
MessageRequestBeforePush(msgs) ==
    [model |-> "claude-sonnet-4-20250514", max_tokens |-> 4000,
     messages |-> SubSeq(msgs, 1, Len(msgs) - 1), tools |-> Some(get_tools)]

\* the MessageRequest send_message builds
MessageRequest(msgs) ==
    [model |-> "claude-sonnet-4-20250514", max_tokens |-> 4000,
     messages |-> msgs, tools |-> Some(get_tools)]

---------------------------------------------------------------------------
(* What the remote model and the keyboard may send.                        *)

\* characters of KeyCode::Char
Chars == {"a", " "}

\* the errors ClaudeClient::send_message returns: the request failed, the
\* status was not a success, the body did not parse
ClientErrors ==
    {<<"error sending request">>,
     <<"API error: ", "overloaded">>,
     <<"error decoding response body">>}

ArtifactText == Join(<<BareOpenLine, PlainLine, CloseLineText>>, <<NL>>)

CalcOk == ToolUseBlock("t1", "calculator",
              JsonObject([expression |-> JsonString(<<"1", " ", "+", " ", "2">>)]))
CalcEvalFails == ToolUseBlock("t1", "calculator",
              JsonObject([expression |-> JsonString(<<"1", "+">>)]))
CalcNotAString == ToolUseBlock("t2", "calculator",
              JsonObject([expression |-> JsonNumber]))
UnknownTool == ToolUseBlock("t1", "bogus", JsonEmptyObject)
WeatherOk == ToolUseBlock("t2", "weather",
              JsonObject([location |-> JsonString(<<"x">>)]))

\* response.content of the responses the remote model sends
Responses ==
    {<<>>,
     <<TextBlock(<<"a">>)>>,
     <<TextBlock(ArtifactText)>>,
     <<TextBlock(AttrOpenLine \o <<NL>>), TextBlock(CloseLineText)>>,
     <<CalcOk>>,
     <<UnknownTool>>,
     <<TextBlock(<<"a">>), CalcEvalFails, WeatherOk>>,
     <<TextBlock(ArtifactText), CalcOk, CalcNotAString>>}

---------------------------------------------------------------------------
(* The event loop and the turn cycle (src/src/ui.rs).                      *)

\* a test of the buffer that takes only the empty buffer for blank
IsBlankWhenEmpty(s) == s = <<>>

\* self.input.trim().is_empty()
IsBlank(s) == \A i \in 1..Len(s) : s[i] = " "

\* the synthetic message pushed with the role of the user
ErrorMessageFromUser(e) == Message("user", MessageText(<<"Error: ">> \o e))

\* the synthetic assistant message of a failed turn
ErrorMessage(e) == Message("assistant", MessageText(<<"Error: ">> \o e))

\* the push after send_message returned Err(e), which drops the message
PushErrorDropped(msgs, e) == msgs

\* the push after send_message returned Err(e), which takes the place of
\* the user message of the failed turn
PushErrorReplacesLast(msgs, e) ==
    Append(SubSeq(msgs, 1, Len(msgs) - 1), ErrorMessage(e))

\* run, after send_message returned Err(e)
PushError(msgs, e) == Append(msgs, ErrorMessage(e))

\* the two blocks pushed for a tool call whose dispatch returned result
ToolBlocks(item, result) ==
    <<ToolUseBlock(item.id, item.name, item.input),
      ToolResultBlock(item.id, result)>>

\* the commit that stores plain text whenever the first block is a text
AssistantMessageFirstText(blocks) ==
    IF Len(blocks) >= 1 /\ blocks[1].type = "text"
    THEN Message("assistant", MessageText(blocks[1].text))
    ELSE Message("assistant", MessageBlocks(blocks))

\* the assistant message send_message commits
AssistantMessage(blocks) ==
    IF Len(blocks) = 1 /\ blocks[1].type = "text"
    THEN Message("assistant", MessageText(blocks[1].text))
    ELSE Message("assistant", MessageBlocks(blocks))

\* the outcomes of display_artifact: writing the file or opening the
\* browser may fail, printing does not
DisplayOutcomes(artifact) ==
    IF artifact.content_type \in {<<"text/html">>, <<"application/vnd.ant.react">>,
                                  <<"text/javascript">>, <<"text/typescript">>}
    THEN {"Ok", "Err"}
    ELSE {"Ok"}

\* the text ui puts in the status area: it is computed from the number of
\* artifacts and from nothing else
status_text(arts) ==
    IF arts = <<>>
    THEN [count |-> 0, text |-> "No artifacts generated yet"]
    ELSE [count |-> Len(arts),
          text |-> " artifact(s) available - Press Tab to view latest"]

\* send_message is over and the loop reads keys again
BackToIdle ==
    /\ pc' = "Idle"
    /\ response' = <<>>
    /\ resp_i' = 0
    /\ response_blocks' = <<>>
    /\ full_text' = <<>>

TurnLocalsUnchanged == UNCHANGED <<response, resp_i, response_blocks, full_text>>

\* the characters of the user messages of a history
RECURSIVE UserChars(_)
UserChars(msgs) ==
    IF msgs = <<>> THEN 0
    ELSE UserChars(Tail(msgs))
           + (IF msgs[1].role = "user" THEN Len(msgs[1].content.text) ELSE 0)

\* the loop also reads keys while the answer of the client is awaited
LoopReadsKeyWhilePending == pc \in {"Idle", "AwaitingModel"}

\* the loop also reads keys while a response is processed
LoopReadsKeyWhileProcessing == pc \in {"Idle", "ProcessingResponse"}

\* the loop is at event::read(): send_message is not running and run has
\* not returned
LoopReadsKey == pc = "Idle"

\* Ctrl+Q: the loop breaks
KeyCtrlQ ==
    /\ LoopReadsKey
    /\ key' = "CtrlQ"
    /\ pc' = "Exited"
    /\ UNCHANGED <<messages, input, artifacts, scroll_offset, request, fail_streak, uuid_calls>>
    /\ TurnLocalsUnchanged
    /\ displayed' = None
    /\ UNCHANGED <<ex_vars, calc_vars>>

\* Enter: with a non-blank buffer the user message is pushed and
\* send_message runs up to the await of the client's answer
KeyEnter ==
    /\ LoopReadsKey
    /\ key' = "Enter"
    /\ Len(messages) < 2 * MaxTurns
    /\ IF IsBlank(input)
       THEN UNCHANGED <<messages, input, pc, request, fail_streak>>
       ELSE /\ input' = <<>>
            /\ messages' = Append(messages, Message("user", MessageText(input)))
            /\ request' = Some(MessageRequest(messages'))
            /\ pc' = "AwaitingModel"
            /\ fail_streak' = IF fail_streak.n = 0
                              THEN [n |-> 0, messages |-> messages, artifacts |-> artifacts]
                              ELSE fail_streak
    /\ UNCHANGED <<artifacts, scroll_offset, uuid_calls>>
    /\ TurnLocalsUnchanged
    /\ displayed' = None
    /\ UNCHANGED <<ex_vars, calc_vars>>

KeyChar ==
    /\ LoopReadsKey
    /\ key' = "Char"
    /\ UserChars(messages) + Len(input) < MaxChars
    /\ \E c \in Chars : input' = Append(input, c)
    /\ UNCHANGED <<messages, artifacts, scroll_offset, pc, request, fail_streak, uuid_calls>>
    /\ TurnLocalsUnchanged
    /\ displayed' = None
    /\ UNCHANGED <<ex_vars, calc_vars>>

KeyBackspace ==
    /\ LoopReadsKey
    /\ key' = "Backspace"
    /\ input' = IF input = <<>> THEN <<>> ELSE SubSeq(input, 1, Len(input) - 1)
    /\ UNCHANGED <<messages, artifacts, scroll_offset, pc, request, fail_streak, uuid_calls>>
    /\ TurnLocalsUnchanged
    /\ displayed' = None
    /\ UNCHANGED <<ex_vars, calc_vars>>

\* Up without the test of the offset
KeyUpUnclamped ==
    /\ LoopReadsKey
    /\ key' = "Up"
    /\ scroll_offset' = scroll_offset - 1
    /\ UNCHANGED <<messages, input, artifacts, pc, request, fail_streak, uuid_calls>>
    /\ TurnLocalsUnchanged
    /\ displayed' = None
    /\ UNCHANGED <<ex_vars, calc_vars>>

KeyUp ==
    /\ LoopReadsKey
    /\ key' = "Up"
    /\ scroll_offset' = IF scroll_offset > 0 THEN scroll_offset - 1 ELSE scroll_offset
    /\ UNCHANGED <<messages, input, artifacts, pc, request, fail_streak, uuid_calls>>
    /\ TurnLocalsUnchanged
    /\ displayed' = None
    /\ UNCHANGED <<ex_vars, calc_vars>>

KeyDown ==
    /\ LoopReadsKey
    /\ key' = "Down"
    /\ scroll_offset < MaxScroll
    /\ scroll_offset' = scroll_offset + 1
    /\ UNCHANGED <<messages, input, artifacts, pc, request, fail_streak, uuid_calls>>
    /\ TurnLocalsUnchanged
    /\ displayed' = None
    /\ UNCHANGED <<ex_vars, calc_vars>>

\* Tab handing the oldest artifact to display_artifact
KeyTabOldest ==
    /\ LoopReadsKey
    /\ key' = "Tab"
    /\ IF artifacts # <<>>
       THEN \E outcome \in DisplayOutcomes(artifacts[1]) :
               displayed' = Some([artifact |-> artifacts[1], outcome |-> outcome])
       ELSE displayed' = None
    /\ UNCHANGED <<messages, input, artifacts, scroll_offset, pc, request,
                   fail_streak, uuid_calls>>
    /\ TurnLocalsUnchanged
    /\ UNCHANGED <<ex_vars, calc_vars>>

\* Tab: the latest artifact, if any, goes to display_artifact, whose result
\* is dropped
KeyTab ==
    /\ LoopReadsKey
    /\ key' = "Tab"
    /\ IF artifacts # <<>>
       THEN \E outcome \in DisplayOutcomes(Last(artifacts)) :
               displayed' = Some([artifact |-> Last(artifacts), outcome |-> outcome])
       ELSE displayed' = None
    /\ UNCHANGED <<messages, input, artifacts, scroll_offset, pc, request,
                   fail_streak, uuid_calls>>
    /\ TurnLocalsUnchanged
    /\ UNCHANGED <<ex_vars, calc_vars>>

\* any other key, and any event that is no key press
KeyOther ==
    /\ LoopReadsKey
    /\ key' = "Other"
    /\ UNCHANGED <<messages, input, artifacts, scroll_offset, pc, request, fail_streak, uuid_calls>>
    /\ TurnLocalsUnchanged
    /\ displayed' = None
    /\ UNCHANGED <<ex_vars, calc_vars>>

\* self.client.send_message returns Err and run returns it as well
ClientFailsEndsRun ==
    /\ pc = "AwaitingModel"
    /\ UNCHANGED messages
    /\ request' = None
    /\ fail_streak' = [fail_streak EXCEPT !.n = @ + 1]
    /\ pc' = "Failed"
    /\ TurnLocalsUnchanged
    /\ UNCHANGED <<input, artifacts, scroll_offset, uuid_calls>>
    /\ displayed' = None
    /\ UNCHANGED key
    /\ UNCHANGED <<ex_vars, calc_vars>>

\* self.client.send_message returns Err: send_message returns it and run
\* pushes the synthetic message
ClientFails ==
    /\ pc = "AwaitingModel"
    /\ \E e \in ClientErrors : messages' = PushError(messages, e)
    /\ request' = None
    /\ fail_streak' = [fail_streak EXCEPT !.n = @ + 1]
    /\ BackToIdle
    /\ UNCHANGED <<input, artifacts, scroll_offset, uuid_calls>>
    /\ displayed' = None
    /\ UNCHANGED key
    /\ UNCHANGED <<ex_vars, calc_vars>>

\* self.client.send_message returns a response
ClientResponds ==
    /\ pc = "AwaitingModel"
    /\ \E r \in Responses : response' = r
    /\ resp_i' = 0
    /\ response_blocks' = <<>>
    /\ full_text' = <<>>
    /\ request' = None
    /\ pc' = "ProcessingResponse"
    /\ UNCHANGED <<messages, input, artifacts, scroll_offset, fail_streak, uuid_calls>>
    /\ displayed' = None
    /\ UNCHANGED key
    /\ UNCHANGED <<ex_vars, calc_vars>>

\* the loop over response.content takes a text item
ProcessText ==
    /\ pc = "ProcessingResponse"
    /\ resp_i < Len(response)
    /\ response[resp_i + 1].type = "text"
    /\ full_text' = full_text \o response[resp_i + 1].text
    /\ response_blocks' = Append(response_blocks, TextBlock(response[resp_i + 1].text))
    /\ resp_i' = resp_i + 1
    /\ UNCHANGED <<messages, input, artifacts, scroll_offset, pc, request, response,
                   fail_streak, uuid_calls>>
    /\ displayed' = None
    /\ UNCHANGED key
    /\ UNCHANGED <<ex_vars, calc_vars>>

\* a dispatch whose Err commits the blocks gathered so far, with the error
\* text as their last block
ToolReturnsKeepsBlocks(item, tool_result) ==
    IF tool_result.ok
    THEN /\ response_blocks' = response_blocks \o ToolBlocks(item, tool_result.val)
         /\ resp_i' = resp_i + 1
         /\ UNCHANGED <<messages, pc, response, full_text, fail_streak>>
    ELSE /\ messages' = Append(messages,
                            AssistantMessage(Append(response_blocks,
                                TextBlock(<<"Error: ">> \o tool_result.err))))
         /\ fail_streak' = NoStreak
         /\ BackToIdle

\* the dispatch of a tool call returned: on Ok the two blocks are pushed
\* and the loop goes on; on Err send_message returns it ("?") and run
\* pushes the synthetic message
ToolReturns(item, tool_result) ==
    IF tool_result.ok
    THEN /\ response_blocks' = response_blocks \o ToolBlocks(item, tool_result.val)
         /\ resp_i' = resp_i + 1
         /\ UNCHANGED <<messages, pc, response, full_text, fail_streak>>
    ELSE /\ messages' = PushError(messages, tool_result.err)
         /\ fail_streak' = NoStreak
         /\ BackToIdle

\* the loop over response.content takes a tool call
ProcessToolUse ==
    /\ pc = "ProcessingResponse"
    /\ resp_i < Len(response)
    /\ response[resp_i + 1].type = "tool_use"
    /\ ToolReturns(response[resp_i + 1],
                   handle_tool_call(response[resp_i + 1].name, response[resp_i + 1].input))
    /\ UNCHANGED <<input, artifacts, scroll_offset, request, uuid_calls>>
    /\ displayed' = None
    /\ UNCHANGED key
    /\ UNCHANGED <<ex_vars, calc_vars>>

\* the loop is over: the artifacts of the full text are appended and the
\* assistant message is pushed
Commit ==
    /\ pc = "ProcessingResponse"
    /\ resp_i = Len(response)
    /\ LET ls == Lines(full_text)
       IN  /\ artifacts' = artifacts \o extract_artifacts(full_text, UuidsFor(ls, uuid_calls))
           /\ uuid_calls' = uuid_calls + UuidCalls(ls, Len(ls))
    /\ messages' = Append(messages, AssistantMessage(response_blocks))
    /\ fail_streak' = NoStreak
    /\ BackToIdle
    /\ UNCHANGED <<input, scroll_offset, request>>
    /\ displayed' = None
    /\ UNCHANGED key
    /\ UNCHANGED <<ex_vars, calc_vars>>

\* terminal.draw or event::read returns Err: run returns it ("?")
TerminalFails ==
    /\ LoopReadsKey
    /\ pc' = "Failed"
    /\ displayed' = None
    /\ UNCHANGED <<messages, input, artifacts, scroll_offset, key, request,
                   fail_streak, uuid_calls>>
    /\ TurnLocalsUnchanged
    /\ UNCHANGED <<ex_vars, calc_vars>>

Init ==
    /\ UiIdle
    /\ ExtractIdle
    /\ CalcIdle

Next ==
    \/ KeyCtrlQ \/ KeyEnter \/ KeyChar \/ KeyBackspace \/ KeyUp \/ KeyDown
    \/ KeyTab \/ KeyOther
    \/ TerminalFails
    \/ ClientFails \/ ClientResponds \/ ProcessText \/ ProcessToolUse \/ Commit

Spec == Init /\ [][Next]_vars

\* the remote call returns: the await of the client ends with a response
\* or with an error
ClientReturns == ClientFails \/ ClientResponds

\* send_message runs on: the loop over the response and what follows it
\* are sequential code that is not suspended
SendMessageRuns == ProcessText \/ ProcessToolUse \/ Commit

\* the position of a turn: where run is, and how many items of the response
\* the loop of send_message has taken
turn_position == <<pc, resp_i>>

\* a started turn takes its next step.  Every step of ClientReturns and of
\* SendMessageRuns moves the position of the turn and nothing else does
\* while a request is outstanding (TurnProceedsIsTheTurn), so this action
\* is enabled exactly when one of them is and its steps are theirs
TurnProceeds ==
    /\ pc \in {"AwaitingModel", "ProcessingResponse"}
    /\ pc' \in {"Idle", "AwaitingModel", "ProcessingResponse"}
    /\ resp_i' \in 0..(resp_i + 1)

TurnProceedsIsTheTurn ==
    [][(ClientReturns \/ SendMessageRuns)
          <=> (TurnProceeds /\ turn_position' # turn_position)]_vars

\* the remote call returns and the code after it runs: a started turn is
\* not suspended for ever
SpecLive == Spec /\ WF_turn_position(TurnProceeds)

---------------------------------------------------------------------------
(* Statements about the turn cycle, checked under Spec.                    *)

\* the step on which send_message is over and the loop reads keys again
TurnCloses == pc = "ProcessingResponse" /\ pc' = "Idle"

HasToolCall(content) == \E i \in 1..Len(content) : content[i].type = "tool_use"

IsBlocksMessage(m) == m.role = "assistant" /\ m.content.kind = "Blocks"

\* m carries a ToolResult for the call item, whose text is the result of
\* the dispatch or contains the description of its error
CarriesResultOf(m, item) ==
    /\ IsBlocksMessage(m)
    /\ \E k \in 1..Len(m.content.blocks) :
          LET b == m.content.blocks[k]
              r == handle_tool_call(item.name, item.input)
          IN  /\ b.type = "tool_result"
              /\ b.tool_use_id = item.id
              /\ IF r.ok THEN b.content = r.val
                 ELSE \E i \in 1..Len(b.content) : b.content[i] = r.err[Len(r.err)]

\* C1: for every tool call of a response, whatever the outcome of its
\* dispatch, the turn is not aborted: when the turn closes, the assistant
\* message committed last carries a ToolResult block for that call, whose
\* text is the result or a description of the error.
C1_ToolErrorsFolded ==
    [][TurnCloses =>
         \A i \in 1..Len(response) :
            response[i].type = "tool_use"
                => /\ Len(messages') = Len(messages) + 1
                   /\ CarriesResultOf(Last(messages'), response[i])]_vars

\* in the blocks of a message every ToolResult directly follows a ToolUse
\* with its identifier, and every ToolUse is directly followed by one
Paired(blocks) ==
    \A k \in 1..Len(blocks) :
       /\ blocks[k].type = "tool_result"
            => /\ k > 1
               /\ blocks[k - 1].type = "tool_use"
               /\ blocks[k - 1].id = blocks[k].tool_use_id
       /\ blocks[k].type = "tool_use"
            => /\ k < Len(blocks)
               /\ blocks[k + 1].type = "tool_result"
               /\ blocks[k + 1].tool_use_id = blocks[k].id

AllPaired(msgs) ==
    \A j \in 1..Len(msgs) :
       msgs[j].content.kind = "Blocks" => Paired(msgs[j].content.blocks)

\* C2: in every history every ToolResult directly follows, in the same
\* assistant message, a ToolUse with the same call identifier and every
\* ToolUse is directly followed by such a ToolResult; and the turn whose
\* response is a single tool call commits an assistant message whose
\* blocks are exactly that ToolUse and a ToolResult with its identifier.
C2_ToolUseResultPaired ==
    [][/\ AllPaired(messages')
       /\ (TurnCloses /\ Len(response) = 1 /\ response[1].type = "tool_use")
            => /\ Len(messages') = Len(messages) + 1
               /\ IsBlocksMessage(Last(messages'))
               /\ Len(Last(messages').content.blocks) = 2
               /\ Last(messages').content.blocks[1] = response[1]
               /\ Last(messages').content.blocks[2].type = "tool_result"
               /\ Last(messages').content.blocks[2].tool_use_id = response[1].id]_vars

IsUserText(m) == m.role = "user" /\ m.content.kind = "Text"

\* the synthetic assistant text message describing a transport error
IsTransportErrorText(m) ==
    /\ m.role = "assistant"
    /\ m.content.kind = "Text"
    /\ m.content.text # <<>>
    /\ m.content.text[1] = "Error: "
    /\ Tail(m.content.text) \in ClientErrors

\* C3: after N submitted turns in a row that each failed with a transport
\* error, the history is the history before them followed by exactly 2N
\* messages, for each turn the user message and then one synthetic
\* assistant text message describing the error, and the artifacts are
\* the artifacts before them.
C3_FailedTurnsAddTwoEach ==
    (pc = "Idle" /\ fail_streak.n > 0)
        => /\ Len(messages) = Len(fail_streak.messages) + 2 * fail_streak.n
           /\ IsPrefix(fail_streak.messages, messages)
           /\ \A k \in 1..fail_streak.n :
                 /\ IsUserText(messages[Len(fail_streak.messages) + 2 * k - 1])
                 /\ IsTransportErrorText(messages[Len(fail_streak.messages) + 2 * k])
           /\ artifacts = fail_streak.artifacts

\* two turns in a row failed in the transport, after a turn that committed
\* an artifact
C3_Witness ==
    /\ pc = "Idle"
    /\ fail_streak.n = 2
    /\ fail_streak.messages # <<>>
    /\ fail_streak.artifacts # <<>>
    /\ Len(messages) = Len(fail_streak.messages) + 4

\* C4: the history is append-only: across every step (any key, any
\* outcome of a turn, transport and tool failures included) the history
\* before is a prefix of the history after.
C4_HistoryAppendOnly == [][IsPrefix(messages, messages')]_vars

\* a turn that failed in the transport, then a turn aborted by a tool, then
\* a turn that committed blocks: six messages were appended
C4_Witness ==
    /\ pc = "Idle"
    /\ Len(messages) = 6
    /\ IsTransportErrorText(messages[2])
    /\ messages[4].content.kind = "Text"
    /\ messages[4].content.text[1] = "Error: "
    /\ ~IsTransportErrorText(messages[4])
    /\ IsBlocksMessage(messages[6])

\* C5: when a response contains at least one tool call, the engine sends,
\* once the calls are dispatched, a follow-up request that carries the
\* accumulated ToolUse and ToolResult blocks, before the turn closes; the
\* turn does not return to Idle after such a response.
C5_FollowUpAfterToolCalls ==
    [][(pc = "ProcessingResponse" /\ resp_i = Len(response) /\ HasToolCall(response))
          => /\ pc' = "AwaitingModel"
             /\ request' # None
             /\ request'[1].messages # <<>>
             /\ Last(request'[1].messages).content = MessageBlocks(response_blocks)]_vars

---------------------------------------------------------------------------
(* Statements about the event loop, checked under Spec.                    *)

\* this step handles the key k
Handles(k) == pc = "Idle" /\ pc' # "Failed" /\ key' = k

HandlesKey == pc = "Idle" /\ pc' # "Failed"

Outstanding == pc \in {"AwaitingModel", "ProcessingResponse"}

Returned_run == pc \in {"Exited", "Failed"}

\* C13: the scroll offset is never negative: Up at offset 0 leaves it at
\* 0, Up at offset k > 0 gives k - 1, Down gives k + 1, and no other key
\* and no outcome of a turn changes the offset.
C13_ScrollOffset ==
    [][/\ scroll_offset' >= 0
       /\ Handles("Up")
            => scroll_offset' = IF scroll_offset = 0 THEN 0 ELSE scroll_offset - 1
       /\ Handles("Down") => scroll_offset' = scroll_offset + 1
       /\ ~(Handles("Up") \/ Handles("Down")) => scroll_offset' = scroll_offset]_vars

\* Up was handled at offset 0, after a turn
C13_Witness ==
    /\ pc = "Idle"
    /\ key = "Up"
    /\ scroll_offset = 0
    /\ messages # <<>>

\* C14: at most one request to the remote model is in flight: while a turn
\* is outstanding no key is handled, so no second turn starts, no request
\* is issued and no user message is appended until the loop is back in
\* Idle.
C14_OneRequestInFlight ==
    [][/\ (request' # None) <=> (pc' = "AwaitingModel")
       /\ Outstanding
            => /\ key' = key
               /\ input' = input
               /\ scroll_offset' = scroll_offset
               /\ request' \in {request, None}
               /\ \/ messages' = messages
                  \/ /\ Len(messages') = Len(messages) + 1
                     /\ IsPrefix(messages, messages')
                     /\ Last(messages').role = "assistant"]_vars

\* the request of a second turn is in flight
C14_Witness ==
    /\ pc = "AwaitingModel"
    /\ request # None
    /\ Len(messages) = 3

\* C15 as stated: the loop terminates only through the control+quit key
\* handled in Idle; shutdown is never reached from AwaitingModel or
\* ProcessingResponse.
C15_QuitKeyOnly ==
    [][(~Returned_run /\ Returned_run')
          => pc = "Idle" /\ Handles("CtrlQ") /\ pc' = "Exited"]_vars

\* C15: the loop terminates only from Idle, through the control+quit key
\* or through an error of drawing or of reading the next event, which
\* ends run with that error; a key pressed while a request is pending does
\* not interrupt the turn, and shutdown is never reached from
\* AwaitingModel or ProcessingResponse.
C15_TerminatesFromIdleOnly ==
    [][/\ (~Returned_run /\ Returned_run')
            => /\ pc = "Idle"
               /\ \/ pc' = "Exited" /\ key' = "CtrlQ"
                  \/ pc' = "Failed" /\ key' = key
               /\ UNCHANGED <<messages, input, artifacts, scroll_offset>>
       /\ Returned_run => UNCHANGED <<pc, messages, input, artifacts, scroll_offset>>
       /\ Handles("CtrlQ") => pc' = "Exited"]_vars

\* the loop was left through the control+quit key after a turn
C15_Witness ==
    /\ pc = "Exited"
    /\ key = "CtrlQ"
    /\ messages # <<>>

\* the step on which the remote call fails: transport failure,
\* non-success status or unparseable response
RemoteCallFails == pc = "AwaitingModel" /\ pc' \notin {"AwaitingModel", "ProcessingResponse"}

\* C16: every started turn eventually returns the engine to Idle, provided
\* the remote call eventually returns a response or a failure; a failed
\* turn never terminates the loop and never clears the history, and the
\* engine accepts further input and turns afterwards.
C16_TurnsReturnToIdle ==
    /\ Outstanding ~> (pc = "Idle")
    /\ [][RemoteCallFails
             => /\ pc' = "Idle"
                /\ IsPrefix(messages, messages')
                /\ messages' # <<>>
                /\ UNCHANGED <<input, artifacts, scroll_offset>>]_vars
    /\ [][(pc = "Idle" /\ fail_streak.n > 0)
             => /\ Handles("Char") => input' = Append(input, Last(input'))
                /\ (Handles("Enter") /\ ~IsBlank(input)) => pc' = "AwaitingModel"]_vars

\* after a turn that failed in the remote call the engine took a further
\* input and started a further turn
C16_Witness ==
    /\ pc = "AwaitingModel"
    /\ fail_streak.n = 1
    /\ IsTransportErrorText(messages[Len(messages) - 1])

\* display_artifact returned Err in this step
DisplayFails == displayed' # None /\ displayed'[1].outcome = "Err"

\* C17: when displaying an artifact fails, the failure is reported to the
\* status area (the status area shows something else than before the key),
\* and the message history, the artifact list, the input buffer and the
\* scroll offset are left unchanged.
C17_DisplayFailureReported ==
    [][DisplayFails
          => /\ status_text(artifacts') # status_text(artifacts)
             /\ UNCHANGED <<messages, artifacts, input, scroll_offset>>]_vars

\* the part of C17 about the conversation state alone
C17_DisplayFailureKeepsState ==
    [][DisplayFails => UNCHANGED <<messages, artifacts, input, scroll_offset>>]_vars

\* the step is the commit of a turn: the loop over the response is over and
\* send_message returns Ok
Commits == pc = "ProcessingResponse" /\ resp_i = Len(response) /\ pc' = "Idle"

\* C18: Tab hands the last element of the artifact list to the display
\* function when the list is not empty and does nothing when it is empty;
\* the artifact list only grows, and only at the commit of a turn, by the
\* artifacts extracted from the text of the turn, in extraction order.
C18_TabShowsLatest ==
    [][/\ (Handles("Tab") /\ artifacts # <<>>)
            => /\ displayed' # None
               /\ displayed'[1].artifact = artifacts[Len(artifacts)]
       /\ (Handles("Tab") /\ artifacts = <<>>)
            => /\ displayed' = None
               /\ UNCHANGED <<messages, input, artifacts, scroll_offset, pc>>
       /\ ~Handles("Tab") => displayed' = None
       /\ IsPrefix(artifacts, artifacts')
       /\ artifacts' # artifacts
            => /\ Commits
               /\ artifacts' = artifacts \o
                     extract_artifacts(full_text,
                                       UuidsFor(Lines(full_text), uuid_calls))]_vars

\* Tab was handled with two different artifacts in the list, of two turns
C18_Witness ==
    /\ key = "Tab"
    /\ Len(artifacts) >= 2
    /\ artifacts[1] # artifacts[Len(artifacts)]
    /\ displayed # None
    /\ displayed[1].artifact = artifacts[Len(artifacts)]

\* the blocks of a committed message that stand for the items of the
\* response: all but the results of the tool calls
ItemBlocks(blocks) == SelectSeq(blocks, LAMBDA blk : blk.type # "tool_result")

\* C19: the assistant turn is committed as plain text if and only if the
\* response yields exactly one block and that block is a text; otherwise
\* it is committed as a block sequence that keeps the arrival order of the
\* items of the response, with one text block per text item.
C19_PlainTextIffOneTextBlock ==
    [][Commits
          => /\ Len(messages') = Len(messages) + 1
             /\ messages'[Len(messages')].role = "assistant"
             /\ IF Len(response_blocks) = 1 /\ response_blocks[1].type = "text"
                THEN messages'[Len(messages')].content
                         = MessageText(response[1].text)
                ELSE /\ messages'[Len(messages')].content.kind = "Blocks"
                     /\ messages'[Len(messages')].content.blocks = response_blocks
                     /\ ItemBlocks(response_blocks) = response]_vars

IsTextBlocks(m, n) ==
    /\ m.role = "assistant"
    /\ m.content.kind = "Blocks"
    /\ Len(m.content.blocks) = n
    /\ \A i \in 1..n : m.content.blocks[i].type = "text"

\* the history holds a turn committed as plain text, one committed as two
\* text blocks and one committed as no block at all
C19_Witness ==
    /\ pc = "Idle"
    /\ \E i \in 1..Len(messages) :
          messages[i] = Message("assistant", MessageText(<<"a">>))
    /\ \E i \in 1..Len(messages) : IsTextBlocks(messages[i], 2)
    /\ \E i \in 1..Len(messages) : IsTextBlocks(messages[i], 0)

\* C20: on Enter with a non-blank buffer the user message, plain text equal
\* to the buffer, is appended to the history before the request is issued:
\* the messages of the request are the whole history ending with that
\* message, and the request carries the static tool list.
C20_RequestCarriesHistory ==
    [][/\ (Handles("Enter") /\ ~IsBlank(input))
            => /\ messages' = Append(messages, Message("user", MessageText(input)))
               /\ request' # None
               /\ request'[1].messages = messages'
               /\ request'[1].tools = Some(get_tools)
               /\ pc' = "AwaitingModel"
       /\ (pc # "AwaitingModel" /\ pc' = "AwaitingModel")
            => Handles("Enter") /\ ~IsBlank(input)]_vars

\* the third request is out, with the five messages of the history
C20_Witness ==
    /\ pc = "AwaitingModel"
    /\ key = "Enter"
    /\ Len(messages) = 5
    /\ request # None
    /\ request[1].messages = messages
    /\ messages[5] = Message("user", MessageText(<<"a">>))

\* the buffer holds no character or spaces only
BufferIsBlank == \A i \in 1..Len(input) : input[i] = " "

\* C21: Enter pressed while the input buffer is empty or holds only
\* whitespace starts no turn: no message is appended, no request is issued,
\* and the history, the artifact list, the input buffer and the scroll
\* offset are unchanged.
C21_BlankEnterStartsNothing ==
    [][(Handles("Enter") /\ BufferIsBlank)
          => /\ pc' = "Idle"
             /\ UNCHANGED <<messages, artifacts, input, scroll_offset, request>>]_vars

\* Enter was handled on a buffer of two spaces, after a turn
C21_Witness ==
    /\ pc = "Idle"
    /\ key = "Enter"
    /\ input = <<" ", " ">>
    /\ messages # <<>>

\* the roles of a history alternate, the first one being the user's
Alternates(msgs) ==
    \A i \in 1..Len(msgs) :
        msgs[i].role = IF i % 2 = 1 THEN "user" ELSE "assistant"

\* C22: whenever the loop is in Idle the history alternates roles starting
\* with a user message and has even length; every turn, successful or
\* failed, appends exactly one user message when it starts and exactly one
\* assistant message when it ends, and nothing in between.
C22_HistoryAlternates ==
    /\ [](pc = "Idle" => Alternates(messages) /\ Len(messages) % 2 = 0)
    /\ [][/\ (pc = "Idle" /\ pc' = "AwaitingModel")
               => /\ Len(messages') = Len(messages) + 1
                  /\ IsPrefix(messages, messages')
                  /\ messages'[Len(messages')].role = "user"
          /\ (Outstanding /\ pc' = "Idle")
               => /\ Len(messages') = Len(messages) + 1
                  /\ IsPrefix(messages, messages')
                  /\ messages'[Len(messages')].role = "assistant"
          /\ ~((pc = "Idle" /\ pc' = "AwaitingModel") \/ (Outstanding /\ pc' = "Idle"))
               => messages' = messages]_vars

\* three turns are over: one failed, one was committed as blocks and one
\* as plain text
C22_Witness ==
    /\ pc = "Idle"
    /\ Len(messages) = 6
    /\ \E i \in {2, 4, 6} :
          /\ messages[i].content.kind = "Text"
          /\ messages[i].content.text # <<>>
          /\ messages[i].content.text[1] = "Error: "
    /\ \E i \in {2, 4, 6} : messages[i].content.kind = "Blocks"
    /\ \E i \in {2, 4, 6} : messages[i].content = MessageText(<<"a">>)

\* the step ends a turn without committing its response: the request
\* failed, or the dispatch of a tool call returned an error
TurnFails == Outstanding /\ pc' = "Idle" /\ ~Commits

\* the texts of the text items of a response
TextsOf(items) == {items[k].text : k \in {k \in 1..Len(items) : items[k].type = "text"}}

\* C23: a turn is committed all or nothing.  When the request fails or the
\* dispatch of a tool call returns an error, the turn adds one message to
\* the history, the synthetic error text: it is plain text, so it holds no
\* block of the response, and it is none of the texts of the response, not
\* even of the items taken before the failing one; the artifact list is
\* unchanged.  Nothing is added while the turn runs, and the artifact list
\* changes only in a step that commits the response.
C23_AllOrNothing ==
    [][/\ TurnFails
            => /\ Len(messages') = Len(messages) + 1
               /\ IsPrefix(messages, messages')
               /\ messages'[Len(messages')].role = "assistant"
               /\ messages'[Len(messages')].content.kind = "Text"
               /\ messages'[Len(messages')].content.text[1] = "Error: "
               /\ messages'[Len(messages')].content.text \notin TextsOf(response)
               /\ artifacts' = artifacts
       /\ (Outstanding /\ pc' # "Idle")
            => messages' = messages /\ artifacts' = artifacts
       /\ artifacts' # artifacts => Commits]_vars

\* a turn failed at its third item, a calculator call without expression,
\* after a text holding an artifact and a tool call were taken
C23_Witness ==
    /\ pc = "Idle"
    /\ key = "Enter"
    /\ Len(messages) = 2
    /\ messages[2] = Message("assistant",
                              MessageText(<<"Error: ", "Missing expression">>))
    /\ artifacts = <<>>

---------------------------------------------------------------------------
(* Statements about the calculator, checked under SpecCalc.                *)

Operators == {"+", "-", "*", "/"}

\* the expression with its spaces removed
Cleaned == SelectSeq(calc_expr, LAMBDA c : c # " ")

\* a numeric literal accepted by plain numeric parsing
IsNumber(s) == ParseF64(s).ok

\* s is 'number operator number' with the operator at position i
IsBinaryAt(s, i) ==
    /\ s[i] \in Operators
    /\ IsNumber(SubSeq(s, 1, i - 1))
    /\ IsNumber(SubSeq(s, i + 1, Len(s)))

IsBinary(s) == \E i \in 1..Len(s) : IsBinaryAt(s, i)

Called == calc_out # None

ReturnsResult == calc_out[1].ok /\ calc_out[1].val[1] = "Result: "
ReturnsError == calc_out[1].ok /\ calc_out[1].val[1] = "Error: "

\* C11: for every expression that is neither 'number operator number' nor
\* a single number (two or more operators, parentheses, a dangling
\* operator), the calculator returns an error result string and never a
\* 'Result: <number>' string.
C11_OtherShapesGiveError ==
    (Called /\ ~IsNumber(Cleaned) /\ ~IsBinary(Cleaned))
        => ReturnsError /\ ~ReturnsResult

\* the calculator was called on an expression with two operators
C11_Witness ==
    /\ Called
    /\ calc_expr = <<"1", "+", "1", "*", "0">>
    /\ calc_out[1] = Ok(<<"Error: ", "invalid float literal">>)

\* the result string of the number v
ResultOf(v) == Ok(<<"Result: ">> \o F64Display(v))

\* C12: for every expression that, with its spaces removed, is a single
\* numeric literal accepted by plain numeric parsing (signed and exponent
\* forms included), the calculator returns 'Result: ' followed by that
\* number; and for every 'a op b' with one operator among + - * / and two
\* such literals it returns the result of applying op to a and b.
C12_NumbersAndBinaryGiveResult ==
    Called =>
        /\ IsNumber(Cleaned) => calc_out[1] = ResultOf(ParseF64(Cleaned).val)
        /\ \A i \in 1..Len(Cleaned) :
              IsBinaryAt(Cleaned, i)
                  => calc_out[1] =
                        ResultOf(F64Apply(Cleaned[i],
                                          ParseF64(SubSeq(Cleaned, 1, i - 1)).val,
                                          ParseF64(SubSeq(Cleaned, i + 1, Len(Cleaned))).val))

---------------------------------------------------------------------------
(* Vocabulary of the statements about the extractor, read off the lines of *)
(* the text and not off the state of the loop.                             *)

\* which markers a line holds
LineKind(line) ==
    [open |-> Contains(line, OPEN_MARKER), close |-> Contains(line, CLOSE_MARKER)]

LineKinds(ls) == [m \in 1..Len(ls) |-> LineKind(ls[m])]

HasOpen(K, m) == K[m].open
HasClose(K, m) == K[m].close
HasMarker(K, m) == K[m].open \/ K[m].close
ClosesOnly(K, m) == K[m].close /\ ~K[m].open

\* the artifact a carries the attributes written on the opening line
CarriesAttributesOf(a, line) ==
    /\ a.title = unwrap_or(extract_attribute(line, "title"), <<"Untitled">>)
    /\ a.content_type = unwrap_or(extract_attribute(line, "type"), <<"text/plain">>)
    /\ IF extract_attribute(line, "identifier") = None
       THEN IsUuid(a.id)
       ELSE a.id = extract_attribute(line, "identifier")[1]

\* the lines strictly between lines i and k, joined by line feeds
BodyBetween(ls, i, k) == Join(SubSeq(ls, i + 1, k - 1), <<NL>>)

\* lines i < k are an opening line and a closing line with no marker between
IsBlock(K, i, k) ==
    /\ i < k
    /\ HasOpen(K, i) /\ ~HasClose(K, i)
    /\ ClosesOnly(K, k)
    /\ \A m \in (i + 1)..(k - 1) : ~HasMarker(K, m)

\* opening lines among the first n whose artifact is emitted within the
\* first n lines: the next line with a marker is a closing line
EmittingOpens(K, n) ==
    {j \in 1..n :
        /\ HasOpen(K, j)
        /\ \E k \in (j + 1)..n :
              /\ ClosesOnly(K, k)
              /\ \A m \in (j + 1)..(k - 1) : ~HasMarker(K, m)}

\* the text is exactly one well-formed block, lines i to k, among plain lines
OneBlock(K, i, k) ==
    /\ IsBlock(K, i, k)
    /\ \A m \in DOMAIN K : m \notin {i, k} => ~HasMarker(K, m)

\* a call of extract_artifacts has just returned Last(ex_runs)
Returned == ex_pos = 0 /\ ex_runs # <<>>

\* C6: for a text holding exactly one well-formed block, a call returns
\* exactly one artifact, whose content is the lines between the opening
\* and the closing line joined by line feeds, and nothing else.
C6_OneBlockOneArtifact ==
    Returned =>
        LET K == LineKinds(ex_lines)
        IN  \A i \in DOMAIN K : \A k \in (i + 1)..Len(ex_lines) :
                OneBlock(K, i, k) =>
                    /\ Len(Last(ex_runs)) = 1
                    /\ Last(ex_runs)[1].content = BodyBetween(ex_lines, i, k)

C6_Witness ==
    /\ Returned
    /\ Len(ex_lines) = 5
    /\ OneBlock(LineKinds(ex_lines), 2, 5)
    /\ ex_lines[3] = PlainLine /\ ex_lines[4] = EmptyLine
    /\ Last(ex_runs)[1].content = <<"a", NL>>

\* the last opening line of the text, 0 if there is none
LastOpen(K) ==
    IF \E j \in DOMAIN K : HasOpen(K, j)
    THEN CHOOSE j \in DOMAIN K :
            HasOpen(K, j) /\ \A m \in DOMAIN K : m > j => ~HasOpen(K, m)
    ELSE 0

\* the last opening line is followed by no closing line
Unterminated(K) ==
    /\ LastOpen(K) > 0
    /\ \A m \in DOMAIN K : m > LastOpen(K) => ~HasClose(K, m)

\* C7: when the last opening line of the text is followed by no closing
\* line, the call returns no artifact for it: it returns as many artifacts
\* as the lines before that opening line emit, and none at all when it is
\* the only opening line.
C7_UnterminatedDiscarded ==
    Returned =>
        LET K == LineKinds(ex_lines)
            j == LastOpen(K)
        IN  Unterminated(K) =>
                /\ Len(Last(ex_runs)) = Cardinality(EmittingOpens(K, j - 1))
                /\ (\A m \in 1..(j - 1) : ~HasOpen(K, m)) => Last(ex_runs) = <<>>

C7_Witness ==
    /\ Returned
    /\ Len(ex_lines) >= 3
    /\ Unterminated(LineKinds(ex_lines))
    /\ LastOpen(LineKinds(ex_lines)) = 1
    /\ ex_lines[2] = PlainLine
    /\ Last(ex_runs) = <<>>

\* the text is two well-formed blocks, lines i1 to k1 and i2 to k2, among
\* plain lines
TwoBlocks(K, i1, k1, i2, k2) ==
    /\ IsBlock(K, i1, k1)
    /\ k1 < i2
    /\ IsBlock(K, i2, k2)
    /\ \A m \in DOMAIN K : m \notin {i1, k1, i2, k2} => ~HasMarker(K, m)

\* the two artifacts of a text of two blocks, in source order, each with
\* the attributes and the body of its own block
TwoOwnArtifacts(run, ls, i1, k1, i2, k2) ==
    /\ Len(run) = 2
    /\ CarriesAttributesOf(run[1], ls[i1])
    /\ run[1].content = BodyBetween(ls, i1, k1)
    /\ CarriesAttributesOf(run[2], ls[i2])
    /\ run[2].content = BodyBetween(ls, i2, k2)

\* C8 as stated: two sequential well-formed blocks give two artifacts in
\* source order, each with its own attributes and body, and the two
\* identifiers differ.
C8_TwoBlocksDistinctIds ==
    Returned =>
        LET K == LineKinds(ex_lines)
            n == Len(ex_lines)
        IN  \A i1 \in 1..n : \A k1 \in (i1 + 1)..n :
            \A i2 \in (k1 + 1)..n : \A k2 \in (i2 + 1)..n :
                TwoBlocks(K, i1, k1, i2, k2) =>
                    /\ TwoOwnArtifacts(Last(ex_runs), ex_lines, i1, k1, i2, k2)
                    /\ Last(ex_runs)[1].id # Last(ex_runs)[2].id

\* the two opening lines carry the same identifier attribute
SameIdentifierAttribute(line1, line2) ==
    /\ extract_attribute(line1, "identifier") # None
    /\ extract_attribute(line1, "identifier") = extract_attribute(line2, "identifier")

\* C8 amended: two sequential well-formed blocks give two artifacts in
\* source order, each with its own attributes and body; each identifier is
\* the identifier attribute of its own opening line when it has one and a
\* generated token otherwise, so the two identifiers differ unless both
\* opening lines carry the same identifier attribute, and are equal then.
C8_TwoBlocksOwnArtifacts ==
    Returned =>
        LET K == LineKinds(ex_lines)
            n == Len(ex_lines)
        IN  \A i1 \in 1..n : \A k1 \in (i1 + 1)..n :
            \A i2 \in (k1 + 1)..n : \A k2 \in (i2 + 1)..n :
                TwoBlocks(K, i1, k1, i2, k2) =>
                    /\ TwoOwnArtifacts(Last(ex_runs), ex_lines, i1, k1, i2, k2)
                    /\ (Last(ex_runs)[1].id = Last(ex_runs)[2].id)
                          <=> SameIdentifierAttribute(ex_lines[i1], ex_lines[i2])

C8_Witness ==
    /\ Returned
    /\ Len(ex_lines) = 5
    /\ TwoBlocks(LineKinds(ex_lines), 1, 3, 4, 5)
    /\ ex_lines[1] = AttrOpenLine /\ ex_lines[4] = BareOpenLine
    /\ Len(Last(ex_runs)) = 2
    /\ Last(ex_runs)[1].content = <<"a">>
    /\ Last(ex_runs)[2].content = <<>>

\* line k is a closing line reached inside an artifact whose opening line j
\* was itself met inside the artifact opened at line i
DoubleOpen(K, i, j, k) ==
    /\ i < j /\ j < k
    /\ HasOpen(K, i) /\ HasOpen(K, j)
    /\ \A m \in (i + 1)..(j - 1) : ~ClosesOnly(K, m)
    /\ ClosesOnly(K, k)
    /\ \A m \in (j + 1)..(k - 1) : ~HasMarker(K, m)

\* C9: when an opening line is met inside an artifact, the artifact in
\* progress is abandoned: the closing line that follows emits exactly one
\* artifact, with the attributes of the second opening line and only the
\* lines after it; the loop then holds no artifact in progress and as many
\* artifacts as the lines before the first opening line emitted, plus one.
C9_SecondOpenAbandonsFirst ==
    (ex_pos >= 3 /\ ClosesOnly(LineKinds(<<ex_lines[ex_pos]>>), 1)) =>
        LET K == LineKinds(ex_lines)
        IN  \A i \in 1..ex_pos : \A j \in (i + 1)..ex_pos :
                DoubleOpen(K, i, j, ex_pos) =>
                    /\ ex.artifacts # <<>>
                    /\ CarriesAttributesOf(Last(ex.artifacts), ex_lines[j])
                    /\ Last(ex.artifacts).content = BodyBetween(ex_lines, j, ex_pos)
                    /\ Len(ex.artifacts) = Cardinality(EmittingOpens(K, i - 1)) + 1
                    /\ ex.current_artifact = None
                    /\ ex.content_lines = <<>>

C9_Witness ==
    /\ ex_pos = 5
    /\ DoubleOpen(LineKinds(ex_lines), 1, 3, 5)
    /\ ex_lines[1] = AttrOpenLine /\ ex_lines[2] = PlainLine
    /\ ex_lines[3] = BareOpenLine /\ ex_lines[4] = EmptyLine
    /\ Len(ex.artifacts) = 1
    /\ ex.artifacts[1].title = <<"Untitled">>
    /\ ex.artifacts[1].content = <<>>

\* the opening line of the n-th artifact emitted
NthEmittingOpen(K, n) ==
    LET E == EmittingOpens(K, Len(K))
    IN  CHOOSE j \in E : Cardinality({m \in E : m <= j}) = n

\* C10 as stated: two calls on the same text return the same artifacts,
\* identifiers included.
C10_SameTextSameArtifacts ==
    Len(ex_runs) = 2 => ex_runs[1] = ex_runs[2]

\* C10 amended: two calls on the same text return as many artifacts, equal
\* one by one in title, content type and content, and equal in identifier
\* for every artifact whose opening line carries an identifier attribute.
C10_SameUpToGeneratedIds ==
    Len(ex_runs) = 2 =>
        LET K == LineKinds(ex_lines)
        IN  /\ Len(ex_runs[1]) = Len(ex_runs[2])
            /\ \A n \in 1..Len(ex_runs[1]) :
                  /\ ex_runs[1][n].title = ex_runs[2][n].title
                  /\ ex_runs[1][n].content_type = ex_runs[2][n].content_type
                  /\ ex_runs[1][n].content = ex_runs[2][n].content
                  /\ extract_attribute(ex_lines[NthEmittingOpen(K, n)],
                                       "identifier") # None
                        => ex_runs[1][n].id = ex_runs[2][n].id

C10_Witness ==
    /\ Len(ex_runs) = 2
    /\ Len(ex_runs[1]) = 2
    /\ ex_runs[1][1].id = <<"p">> /\ ex_runs[2][1].id = <<"p">>
    /\ ex_runs[1][2].id = Uuid(1) /\ ex_runs[2][2].id = Uuid(2)

\* the loop takes the line ex_lines[ex_pos + 1] in this step
TakesLine == ex_pos' = ex_pos + 1

\* the lines among the first n that hold the closing marker and not the
\* opening one
ClosingOnlyLines(ls, n) == {m \in 1..n : ClosesOnly(LineKinds(ls), m)}

\* C24: a line holding the opening marker is taken as an opening line even
\* when it also holds the closing marker: it emits no artifact and gives no
\* text to any body, the artifact it opens starting with no line; a line
\* with only the closing marker met outside an artifact emits nothing; and
\* the number of artifacts, during the loop and at the return, is at most
\* the number of lines holding the closing marker without the opening one.
C24_OpeningMarkerWins ==
    /\ [](Len(ex.artifacts) <= Cardinality(ClosingOnlyLines(ex_lines, ex_pos)))
    /\ [](Returned
             => Len(Last(ex_runs))
                  <= Cardinality(ClosingOnlyLines(ex_lines, Len(ex_lines))))
    /\ [][TakesLine =>
            /\ Contains(ex_lines[ex_pos + 1], OPEN_MARKER)
                 => /\ ex'.artifacts = ex.artifacts
                    /\ ex'.in_artifact
                    /\ ex'.content_lines = <<>>
                    /\ ex'.current_artifact # None
                    /\ ex'.current_artifact[1].content = <<>>
            /\ (ClosesOnly(LineKinds(ex_lines), ex_pos + 1) /\ ~ex.in_artifact)
                 => /\ ex'.artifacts = ex.artifacts
                    /\ ~ex'.in_artifact]_vars

\* a line with both markers stood inside an artifact and two closing lines
\* followed: one artifact is returned, whose body is the one plain line
C24_Witness ==
    /\ Returned
    /\ ex_lines = <<BareOpenLine, OpenCloseLine, PlainLine, CloseLineText, CloseLineText>>
    /\ Len(Last(ex_runs)) = 1
    /\ Last(ex_runs)[1].content = PlainLine

=============================================================================
